---------------------------- MODULE Spec2Model ----------------------------
(***************************************************************************)
(* The MQTT command bridge of the Maskcam dashboard                         *)
(* (server/frontend/main.py): send_mqtt_command and                        *)
(* send_mqtt_message_wait_response, the callbacks _on_connect and          *)
(* _on_message, and the two bounded wait loops.                            *)
(*                                                                         *)
(* The paho client is the environment: every call into it (connect, loop,  *)
(* subscribe, publish, reconnect) either returns or raises, and one        *)
(* client.loop() call hands at most one network event to the callbacks.    *)
(* A publish whose result code is non-zero was not queued and is never     *)
(* confirmed; a publish with result code 0 is confirmed at once or by a    *)
(* later loop() call, or never.                                            *)
(***************************************************************************)
EXTENDS Integers, Sequences, FiniteSets, TLC

\* ------------------------------------------------------------------ bounds
\* Status records of one device differ in their "time" field, 1..MaxTime.
MaxTime == 2
\* The runs request the first MaxCommands commands of CommandList.
MaxCommands == 2

\* ------------------------------------------------------- program constants
MQTT_TOPIC_COMMANDS == "commands"
MQTT_TOPIC_STATUS == "device-status"

CMD_FILE_SAVE == "save_file"
CMD_STREAMING_START == "streaming_start"
CMD_STREAMING_STOP == "streaming_stop"
CMD_INFERENCE_RESTART == "inference_restart"
CMD_FILESERVER_RESTART == "fileserver_restart"
CMD_REQUEST_STATUS == "status_request"

\* The six commands display_device can send (one per button, and the
\* status request of the first page load).
Commands ==
    {CMD_FILE_SAVE, CMD_STREAMING_START, CMD_STREAMING_STOP,
     CMD_INFERENCE_RESTART, CMD_FILESERVER_RESTART, CMD_REQUEST_STATUS}

\* The same commands in the order display_device comes to them: the status
\* request of a page that has no status yet, then the buttons.
CommandList ==
    <<CMD_REQUEST_STATUS, CMD_INFERENCE_RESTART, CMD_FILESERVER_RESTART,
      CMD_STREAMING_STOP, CMD_STREAMING_START, CMD_FILE_SAVE>>

\* The commands the explored runs request: a command is only copied into
\* the envelope, no step depends on which one it is.
Requested == {CommandList[i] : i \in 1..MaxCommands} \cap Commands

\* mqtt_wait_connection(client, 5) before the first publish
CONNECT_TIMEOUT == 5
\* timeout = 5 of the publish-confirmation loop
PUBLISH_TIMEOUT == 5
\* mqtt_wait_connection(client, 5) after client.reconnect()
RECONNECT_TIMEOUT == 5
\* mqtt_wait_response(client, 5)
RESPONSE_TIMEOUT == 5
\* retry_publish = 2
RETRY_PUBLISH == 2

\* The texts mqtt_set_status is called with (the dashboard's are partly in
\* Chinese; the names say which line is which).
ST_NONE == "(unset)"
ST_CONNECTING == "connecting..."
ST_SENDING == "Sending message..."
ST_WAITING == ":clock3: waiting for device response..."
ST_RECONNECTING == ":clock3: reconnecting..."
ST_FAILED == ":o: Message failed"
ST_NO_RESPONSE == ":red_circle: device did not respond"

\* f":red_circle: cannot reach MQTT broker: {e}"
CannotReach(e) == ":red_circle: cannot reach MQTT broker: " \o e

\* ------------------------------------------------------------- environment
\* The devices get_devices() lists; the sidebar offers None as well.
Devices == {"cam-1", "cam-2"}
NoDevice == ""

\* A decoded status record; "time" stands for the fields besides device_id.
Records == [device_id : Devices, time : 1..MaxTime]
\* Python's None in state.mqtt_last_status
None == [device_id |-> NoDevice, time |-> 0]

\* What a message's payload decodes to: a status record, JSON without a
\* "device_id" key, or no JSON at all.
Payloads ==
    [form : {"record"}, device_id : Devices, time : 1..MaxTime]
    \cup {[form |-> "nokey", device_id |-> NoDevice, time |-> 0],
          [form |-> "malformed", device_id |-> NoDevice, time |-> 0]}

\* Inbound messages.  The client subscribes to the status topic only; one
\* message on another topic stands for what the assertion of _on_message
\* guards against.
Messages ==
    [topic : {MQTT_TOPIC_STATUS}, payload : Payloads]
    \cup {[topic |-> MQTT_TOPIC_COMMANDS,
           payload |-> [form |-> "malformed", device_id |-> NoDevice, time |-> 0]]}
NoMsg == [topic |-> "", payload |-> [form |-> "", device_id |-> NoDevice, time |-> 0]]

\* What one client.loop() call can process: nothing, a CONNACK with a result
\* code, an inbound message, the confirmation of publish number mid, or a
\* transport error the call raises.
Events ==
    [type : {"none", "error"}, rc : {0}, mid : {0}, msg : {NoMsg}]
    \cup [type : {"connack"}, rc : {0, 5}, mid : {0}, msg : {NoMsg}]
    \cup [type : {"message"}, rc : {0}, mid : {0}, msg : Messages]
    \cup [type : {"puback"}, rc : {0}, mid : 1..RETRY_PUBLISH, msg : {NoMsg}]
NoEvent == [type |-> "none", rc |-> 0, mid |-> 0, msg |-> NoMsg]

\* Result codes of client.publish: MQTT_ERR_SUCCESS and MQTT_ERR_NO_CONN.
PublishRcs == {0, 4}

VARIABLES
    \* session state (session_manager.get_state())
    selected_device,    \* state.selected_device
    mqtt_connected,     \* state.mqtt_connected
    mqtt_status,        \* state.mqtt_status
    mqtt_last_status,   \* state.mqtt_last_status
    \* restore_client's cache
    client_cached,      \* TRUE once restore_client() returned a client
    subscribed,         \* the broker holds the client's subscription to
                        \* the status topic (lost with the session when
                        \* the client reconnects)
    \* locals of send_mqtt_message_wait_response
    pc,                 \* position in the function, "idle" outside it
    message,            \* the message argument
    retry_publish,
    timeout,            \* countdown of the wait loop being run
    sent,               \* the MQTTMessageInfo of each publish call so far
    \* observations of the current (or last) invocation
    calls,              \* how many client calls of each kind it made
    ev,                 \* the event the latest loop() call processed
    ret,                \* "none" while running, "normal", or "escaped"
    raisedAt,           \* the step that raised, or "none"
    hadStale,           \* mqtt_last_status held a record when it began
    connAtStart,        \* mqtt_connected when it began
    prevNoResponse,     \* the invocation before it, for the same device,
                        \* returned "device did not respond"
    connWaitExhausted,  \* its connect wait used up its budget unconnected
    delivered           \* latest phase in which a record of the selected
                        \* device was handed to _on_message

session == <<selected_device, mqtt_connected, mqtt_status, mqtt_last_status>>
locals == <<message, retry_publish, timeout, sent>>
observed == <<calls, ev, ret, raisedAt, hadStale, connAtStart, prevNoResponse,
              connWaitExhausted, delivered>>
client == <<client_cached, subscribed>>
vars == <<session, client, pc, locals, observed>>

NoCalls == [acquire |-> 0, pump |-> 0, resp_pump |-> 0, subscribe |-> 0,
            publish |-> 0, reconnect |-> 0]
NoMessage == [device_id |-> NoDevice, command |-> ""]

\* msg_info of the latest publish
msg_info == sent[Len(sent)]

Init ==
    /\ selected_device = NoDevice
    /\ mqtt_connected = FALSE
    /\ mqtt_status = ST_NONE
    /\ mqtt_last_status = None
    /\ client_cached = FALSE
    /\ subscribed = FALSE
    /\ pc = "idle"
    /\ message = NoMessage
    /\ retry_publish = 0
    /\ timeout = 0
    /\ sent = <<>>
    /\ calls = NoCalls
    /\ ev = NoEvent
    /\ ret = "none"
    /\ raisedAt = "none"
    /\ hadStale = FALSE
    /\ connAtStart = FALSE
    /\ prevNoResponse = FALSE
    /\ connWaitExhausted = FALSE
    /\ delivered = "none"


\* ---------------------------------------------------------------- helpers
\* What the steps of the bridge can raise: client.connect, client.loop and
\* client.reconnect raise OSError, subscribe and publish ValueError, and
\* _on_message AssertionError, json.JSONDecodeError or KeyError.
ExcKinds == {"OSError", "ValueError", "AssertionError", "JSONDecodeError", "KeyError"}

\* A narrower handler: except OSError.
CatchesOnlyOSError(e) == e = "OSError"

\* except Exception as e: every kind above derives from Exception.
Catches(e) == e \in ExcKinds

\* A callback that takes any acknowledgment for a connection.
OnConnectAnyRc(rc, connected) == TRUE

\* if rc == 0: state.mqtt_connected = True
_on_connect(rc, connected) == IF rc = 0 THEN TRUE ELSE connected

\* What _on_message raises on msg, "none" if it returns: the assertion on
\* the topic comes first, then the return when no device is selected, then
\* json.loads, then the subscript message["device_id"].
OnMessageRaises(msg, selected) ==
    IF msg.topic # MQTT_TOPIC_STATUS THEN "AssertionError"
    ELSE IF selected = NoDevice THEN "none"
    ELSE IF msg.payload.form = "malformed" THEN "JSONDecodeError"
    ELSE IF msg.payload.form = "nokey" THEN "KeyError"
    ELSE "none"

\* json.loads(msg.payload.decode()) of a well-formed record
JsonLoads(payload) == [device_id |-> payload.device_id, time |-> payload.time]

\* _on_message without the comparison of device ids.
OnMessageNoFilter(msg, selected, last_status) ==
    IF OnMessageRaises(msg, selected) # "none" \/ selected = NoDevice
    THEN last_status
    ELSE JsonLoads(msg.payload)

\* A listener that takes a record for a reply only once the command of the
\* invocation has been confirmed sent.
OnMessageAfterConfirmation(msg, selected, last_status) ==
    IF OnMessageRaises(msg, selected) # "none" THEN last_status
    ELSE IF selected = NoDevice THEN last_status
    ELSE IF JsonLoads(msg.payload).device_id # selected THEN last_status
    ELSE IF Len(sent) = 0 \/ ~sent[Len(sent)].published THEN last_status
    ELSE JsonLoads(msg.payload)

\* state.mqtt_last_status after _on_message(client, userdata, msg)
_on_message(msg, selected, last_status) ==
    IF OnMessageRaises(msg, selected) # "none" THEN last_status
    ELSE IF selected = NoDevice THEN last_status
    ELSE IF JsonLoads(msg.payload).device_id # selected THEN last_status
    ELSE JsonLoads(msg.payload)

\* A countdown that is decremented only by a loop() call that processed
\* nothing.
CountdownWhenIdle(t, e) == IF e.type = "none" THEN t - 1 ELSE t

\* timeout -= 1 after each client.loop() call
Countdown(t, e) == t - 1

\* while not state.mqtt_connected and timeout
WaitConnectionLoops == ~mqtt_connected /\ timeout # 0

\* A response wait that looks at its budget only.
WaitResponseIgnoresStatus == timeout # 0

\* while not state.mqtt_last_status and timeout
WaitResponseLoops == mqtt_last_status = None /\ timeout # 0

\* while not msg_info.rc and not msg_info.is_published() and timeout
WaitPublishLoops == msg_info.rc = 0 /\ ~msg_info.published /\ timeout # 0

\* send_mqtt_command: {"device_id": device_id, "command": command}
Envelope(device_id, command) == [device_id |-> device_id, command |-> command]

\* ---------------------------------------------------------------- returns
\* The except clause: the status line, and the return to the caller; an
\* exception the clause does not catch leaves the function instead.
Raise(e, at) ==
    /\ raisedAt' = at
    /\ pc' = "idle"
    /\ IF Catches(e)
       THEN mqtt_status' = CannotReach(e) /\ ret' = "normal"
       ELSE mqtt_status' = mqtt_status /\ ret' = "escaped"

Return(status) ==
    /\ mqtt_status' = status
    /\ pc' = "idle"
    /\ ret' = "normal"

\* --------------------------------------------------------------- the pump
\* The step that raises inside client.loop(), and what.
LoopRaises(e) ==
    IF e.type = "error" THEN "OSError"
    ELSE IF e.type = "message" THEN OnMessageRaises(e.msg, selected_device)
    ELSE "none"

\* A confirmation names a publish of this invocation that was queued and is
\* not confirmed yet; the broker sends messages to a subscribed client only.
Possible(e) ==
    /\ e.type = "puback" =>
        /\ e.mid <= Len(sent)
        /\ sent[e.mid].rc = 0
        /\ ~sent[e.mid].published
    /\ e.type = "message" => subscribed

\* The message is a status record of the selected device.
Matches(e) ==
    /\ e.type = "message"
    /\ e.msg.topic = MQTT_TOPIC_STATUS
    /\ e.msg.payload.form = "record"
    /\ e.msg.payload.device_id = selected_device

\* client.loop(timeout=1) processing event e, and timeout -= 1
Pump(e, phase) ==
    /\ Possible(e)
    /\ ev' = e
    /\ calls' = [calls EXCEPT !.pump = @ + 1,
                              !.resp_pump = IF phase = "inwait" THEN @ + 1 ELSE @]
    /\ IF LoopRaises(e) # "none"
       THEN /\ Raise(LoopRaises(e), IF e.type = "error" THEN "pump" ELSE "listener")
            /\ UNCHANGED <<mqtt_connected, mqtt_last_status, timeout, sent, delivered>>
       ELSE /\ mqtt_connected' =
                 IF e.type = "connack" THEN _on_connect(e.rc, mqtt_connected)
                 ELSE mqtt_connected
            /\ mqtt_last_status' =
                 IF e.type = "message"
                 THEN _on_message(e.msg, selected_device, mqtt_last_status)
                 ELSE mqtt_last_status
            /\ sent' = IF e.type = "puback"
                       THEN [sent EXCEPT ![e.mid].published = TRUE]
                       ELSE sent
            /\ timeout' = Countdown(timeout, e)
            /\ delivered' = IF Matches(e) THEN phase ELSE delivered
            /\ UNCHANGED <<mqtt_status, pc, ret, raisedAt>>
    /\ UNCHANGED <<selected_device, client, message, retry_publish,
                   hadStale, connAtStart,
                   prevNoResponse, connWaitExhausted>>

\* ---------------------------------------------------------------- actions
\* display_sidebar: the selectbox assigns state.selected_device (None is one
\* of the choices).  Runs between commands only: the script is one thread.
SelectDevice(d) ==
    /\ pc = "idle"
    /\ d # selected_device
    /\ selected_device' = d
    /\ UNCHANGED <<mqtt_connected, mqtt_status, mqtt_last_status, client,
                   pc, locals, observed>>

\* get_device(selected_device)["id"]
GetDeviceId(selected) == selected

\* if not state.mqtt_connected (the guard of the connect wait), always taken.
AlwaysWaitConnection(connected) == TRUE

\* if not state.mqtt_connected: ... mqtt_wait_connection(client, 5)
NeedsConnectWait(connected) == ~connected

\* display_device calls send_mqtt_command(device["id"], command, mqtt_status)
\* (main calls display_device only when a device is selected), and
\* send_mqtt_message_wait_response starts: client = get_mqtt_client(), where
\* restore_client connects once and is cached, then the guard of the
\* connect wait.
SendCommand(command) ==
    /\ pc = "idle"
    /\ selected_device # NoDevice
    /\ message' = Envelope(GetDeviceId(selected_device), command)
    /\ calls' = [NoCalls EXCEPT !.acquire = 1]
    /\ ev' = NoEvent
    /\ hadStale' = (mqtt_last_status # None)
    /\ connAtStart' = mqtt_connected
    /\ prevNoResponse' = (/\ ret = "normal"
                          /\ mqtt_status = ST_NO_RESPONSE
                          /\ message.device_id = selected_device)
    /\ connWaitExhausted' = FALSE
    /\ delivered' = "none"
    /\ sent' = <<>>
    /\ retry_publish' = 0
    /\ \E ok \in BOOLEAN :
        /\ client_cached => ok
        /\ IF ~ok
           THEN /\ Raise("OSError", "acquire")
                /\ timeout' = 0
                /\ UNCHANGED client_cached
           ELSE /\ client_cached' = TRUE
                /\ ret' = "none"
                /\ raisedAt' = "none"
                /\ IF NeedsConnectWait(mqtt_connected)
                   THEN /\ mqtt_status' = ST_CONNECTING
                        /\ timeout' = CONNECT_TIMEOUT
                        /\ pc' = "connwait"
                   ELSE /\ mqtt_status' = mqtt_status
                        /\ timeout' = 0
                        /\ pc' = "clear"
    /\ UNCHANGED <<selected_device, mqtt_connected, mqtt_last_status, subscribed>>

\* mqtt_wait_connection(client, 5), one iteration
ConnWaitPump(e) ==
    /\ pc = "connwait"
    /\ WaitConnectionLoops
    /\ Pump(e, "preclear")

\* mqtt_wait_connection returns
ConnWaitDone ==
    /\ pc = "connwait"
    /\ ~WaitConnectionLoops
    /\ pc' = "clear"
    /\ ev' = NoEvent
    /\ UNCHANGED <<session, client, locals, calls, ret, raisedAt,
                   hadStale, connAtStart, prevNoResponse, delivered>>
    /\ connWaitExhausted' = ~mqtt_connected

\* The reset left out.
KeepLastStatus(last_status) == last_status

\* state.mqtt_last_status = None
ResetLastStatus(last_status) == None

\* state.mqtt_last_status = None; retry_publish = 2
ClearLastStatus ==
    /\ pc = "clear"
    /\ mqtt_last_status' = ResetLastStatus(mqtt_last_status)
    /\ retry_publish' = RETRY_PUBLISH
    /\ pc' = "subscribe"
    /\ ev' = NoEvent
    /\ UNCHANGED <<selected_device, mqtt_connected, mqtt_status, client,
                   message, timeout, sent, calls, ret, raisedAt, hadStale,
                   connAtStart,
                   prevNoResponse, connWaitExhausted, delivered>>

\* A subscribe call in the first attempt only, as if it stood before the loop.
SubscribeFirstAttemptOnly(retry) == retry = RETRY_PUBLISH

\* client.subscribe stands in the body of the retry loop: every attempt
\* makes the call.
SubscribesInAttempt(retry) == TRUE

\* while retry_publish: retry_publish -= 1; client.subscribe(MQTT_TOPIC_STATUS)
\* # Must be done after reconnection
Subscribe ==
    /\ pc = "subscribe"
    /\ retry_publish' = retry_publish - 1
    /\ ev' = NoEvent
    /\ IF SubscribesInAttempt(retry_publish)
       THEN /\ calls' = [calls EXCEPT !.subscribe = @ + 1]
            /\ \/ /\ Raise("ValueError", "subscribe")
                  /\ UNCHANGED subscribed
               \/ /\ pc' = "publish"
                  /\ subscribed' = TRUE
                  /\ UNCHANGED <<mqtt_status, ret, raisedAt>>
       ELSE /\ pc' = "publish"
            /\ UNCHANGED <<calls, subscribed, mqtt_status, ret, raisedAt>>
    /\ UNCHANGED <<selected_device, mqtt_connected, mqtt_last_status, client_cached,
                   message, timeout, sent, hadStale, connAtStart,
                   prevNoResponse, connWaitExhausted, delivered>>

\* json.dumps(message): the envelope as it goes on the wire
JsonDumps(m) == [device_id |-> m.device_id, command |-> m.command]

\* msg_info = client.publish(topic, json.dumps(message));
\* mqtt_set_status(mqtt_status, "Sending message..."); timeout = 5
Publish(rc, published) ==
    /\ pc = "publish"
    /\ rc # 0 => ~published
    /\ calls' = [calls EXCEPT !.publish = @ + 1]
    /\ ev' = NoEvent
    /\ \/ /\ rc = 0 /\ ~published
          /\ Raise("ValueError", "publish")
          /\ UNCHANGED <<sent, timeout>>
       \/ /\ sent' = Append(sent, [topic |-> MQTT_TOPIC_COMMANDS,
                                   payload |-> JsonDumps(message),
                                   rc |-> rc, published |-> published])
          /\ mqtt_status' = ST_SENDING
          /\ timeout' = PUBLISH_TIMEOUT
          /\ pc' = "pubwait"
          /\ UNCHANGED <<ret, raisedAt>>
    /\ UNCHANGED <<selected_device, mqtt_connected, mqtt_last_status, client,
                   message, retry_publish, hadStale, connAtStart,
                   prevNoResponse, connWaitExhausted, delivered>>

\* The publish-confirmation loop, one iteration
PubWaitPump(e) ==
    /\ pc = "pubwait"
    /\ WaitPublishLoops
    /\ Pump(e, "postclear")

\* retry_publish left as it is on success.
RetryUnchanged(retry) == retry

\* retry_publish = 0  # Success: exit retry loop
RetryAfterConfirmed(retry) == 0

\* The check after the retry loop left out: the response wait always runs.
NeverFailed(info) == FALSE

\* The check after the retry loop always taken: every round-trip fails.
AlwaysFailed(info) == TRUE

\* if not msg_info.is_published(): "Message failed", return
FailedAfterLoop(info) == ~info.published

\* The head of the retry loop, reached with the given retry_publish: the
\* next attempt, or the end of the loop and what follows it.
LoopHead(retry) ==
    IF retry # 0
    THEN /\ pc' = "subscribe"
         /\ UNCHANGED <<mqtt_status, ret, timeout>>
    ELSE IF FailedAfterLoop(msg_info)
    THEN /\ Return(ST_FAILED)
         /\ UNCHANGED timeout
    ELSE /\ pc' = "respwait"
         /\ timeout' = RESPONSE_TIMEOUT
         /\ UNCHANGED <<mqtt_status, ret>>

\* if msg_info.is_published(): status "waiting for device response",
\* retry_publish = 0; the loop ends and the response wait begins
PublishConfirmed ==
    /\ pc = "pubwait"
    /\ ~WaitPublishLoops
    /\ msg_info.published
    /\ retry_publish' = RetryAfterConfirmed(retry_publish)
    /\ ev' = NoEvent
    /\ IF retry_publish' # 0
       THEN /\ pc' = "subscribe"
            /\ mqtt_status' = ST_WAITING
            /\ UNCHANGED <<ret, timeout>>
       ELSE IF FailedAfterLoop(msg_info)
       THEN /\ Return(ST_FAILED)
            /\ UNCHANGED timeout
       ELSE /\ pc' = "respwait"
            /\ timeout' = RESPONSE_TIMEOUT
            /\ mqtt_status' = ST_WAITING
            /\ UNCHANGED ret
    /\ UNCHANGED <<selected_device, mqtt_connected, mqtt_last_status, client,
                   message, sent, calls, raisedAt, hadStale, connAtStart,
                   prevNoResponse, connWaitExhausted, delivered>>

\* Every publish that is not confirmed in time taken for a transport failure.
UnconfirmedIsFailure(info) == TRUE

\* elif msg_info.rc: the publish call reported an error
TransportFailed(info) == info.rc # 0

\* state.mqtt_connected left as it is after a failed publish.
ConnectedUnchanged(connected) == connected

\* state.mqtt_connected = False
ConnectedAfterFailure(connected) == FALSE

\* elif msg_info.rc: state.mqtt_connected = False, status "reconnecting",
\* client.reconnect() (a new session: the subscription is gone), and
\* mqtt_wait_connection(client, 5) begins
PublishFailed ==
    /\ pc = "pubwait"
    /\ ~WaitPublishLoops
    /\ ~msg_info.published
    /\ TransportFailed(msg_info)
    /\ mqtt_connected' = ConnectedAfterFailure(mqtt_connected)
    /\ calls' = [calls EXCEPT !.reconnect = @ + 1]
    /\ subscribed' = FALSE
    /\ ev' = NoEvent
    /\ \/ /\ Raise("OSError", "reconnect")
          /\ UNCHANGED timeout
       \/ /\ mqtt_status' = ST_RECONNECTING
          /\ timeout' = RECONNECT_TIMEOUT
          /\ pc' = "reconnwait"
          /\ UNCHANGED <<ret, raisedAt>>
    /\ UNCHANGED <<selected_device, mqtt_last_status, client_cached, message,
                   retry_publish, sent, hadStale, connAtStart,
                   prevNoResponse, connWaitExhausted, delivered>>

\* Neither confirmed nor failed when the countdown ends: back to the loop head
PublishTimedOut ==
    /\ pc = "pubwait"
    /\ ~WaitPublishLoops
    /\ ~msg_info.published
    /\ ~TransportFailed(msg_info)
    /\ LoopHead(retry_publish)
    /\ ev' = NoEvent
    /\ UNCHANGED <<selected_device, mqtt_connected, mqtt_last_status, client,
                   message, retry_publish, sent, calls, raisedAt, hadStale,
                   connAtStart,
                   prevNoResponse, connWaitExhausted, delivered>>

\* mqtt_wait_connection(client, 5) after the reconnect, one iteration
ReconnWaitPump(e) ==
    /\ pc = "reconnwait"
    /\ WaitConnectionLoops
    /\ Pump(e, "postclear")

\* mqtt_wait_connection returns: back to the loop head
ReconnWaitDone ==
    /\ pc = "reconnwait"
    /\ ~WaitConnectionLoops
    /\ LoopHead(retry_publish)
    /\ ev' = NoEvent
    /\ UNCHANGED <<selected_device, mqtt_connected, mqtt_last_status, client,
                   message, retry_publish, sent, calls, raisedAt, hadStale,
                   connAtStart,
                   prevNoResponse, connWaitExhausted, delivered>>

\* mqtt_wait_response(client, 5), one iteration
RespWaitPump(e) ==
    /\ pc = "respwait"
    /\ WaitResponseLoops
    /\ Pump(e, "inwait")

\* The final line written whether or not a record arrived.
NoResponseAlways(last_status) == TRUE

\* if not state.mqtt_last_status
NoResponse(last_status) == last_status = None

\* mqtt_wait_response returns; if not state.mqtt_last_status: status
\* "device did not respond"
RespWaitDone ==
    /\ pc = "respwait"
    /\ ~WaitResponseLoops
    /\ Return(IF NoResponse(mqtt_last_status) THEN ST_NO_RESPONSE ELSE mqtt_status)
    /\ ev' = NoEvent
    /\ UNCHANGED <<selected_device, mqtt_connected, mqtt_last_status, client,
                   locals, calls, raisedAt, hadStale, connAtStart,
                   prevNoResponse, connWaitExhausted, delivered>>

Next ==
    \/ \E d \in Devices \cup {NoDevice} : SelectDevice(d)
    \/ \E c \in Requested : SendCommand(c)
    \/ \E e \in Events : ConnWaitPump(e)
    \/ ConnWaitDone
    \/ ClearLastStatus
    \/ Subscribe
    \/ \E rc \in PublishRcs, published \in BOOLEAN : Publish(rc, published)
    \/ \E e \in Events : PubWaitPump(e)
    \/ PublishConfirmed
    \/ PublishFailed
    \/ PublishTimedOut
    \/ \E e \in Events : ReconnWaitPump(e)
    \/ ReconnWaitDone
    \/ \E e \in Events : RespWaitPump(e)
    \/ RespWaitDone

Spec == Init /\ [][Next]_vars

\* ------------------------------------------------------------- properties
\* The invocation has returned to its caller.
Returned == pc = "idle" /\ ret = "normal"
\* ... and no step of it raised.
ReturnedClean == Returned /\ raisedAt = "none"

CannotReachLines == {CannotReach(e) : e \in ExcKinds}

\* The publishes of this invocation that reported a transport failure.
FailedPublishes == {i \in 1..Len(sent) : sent[i].rc # 0}
\* The publishes of this invocation the client accepted for delivery.
AcceptedPublishes == {i \in 1..Len(sent) : sent[i].rc = 0}
\* The latest publish was confirmed delivered.
Confirmed == Len(sent) > 0 /\ msg_info.published

\* C1: whichever step raises (acquiring the handle, a pump, subscribe,
\* publish, reconnect, the listener inside a pump), nothing escapes to the
\* caller: send_mqtt_message_wait_response returns normally and the status
\* line at return is the "cannot reach broker: <cause>" line.
C1_NoExceptionEscapes ==
    /\ ret # "escaped"
    /\ raisedAt # "none" => Returned /\ mqtt_status \in CannotReachLines

\* C1 witness: the listener raised inside a pump and the bridge returned with
\* the "cannot reach broker" line.
C1_Witness ==
    /\ raisedAt = "listener"
    /\ Returned
    /\ mqtt_status = CannotReach("JSONDecodeError")

\* C2: a record that was in last_status before an invocation began is gone
\* when the invocation returns, whatever its outcome, unless a record of
\* the selected device was handed to the listener during the invocation.
C2_StaleRecordCleared ==
    (Returned /\ hadStale /\ delivered = "none") => mqtt_last_status = None

\* C3: the listener filters on device identity.  A status record of another
\* device than the selected one (or any record while no device is selected)
\* leaves last_status, connected and the status line unchanged; a pump that
\* delivers a message changes last_status only if the record's device_id is
\* the selected device, and then to exactly that record.
C3_ListenerFilters ==
    [][(calls'.pump = calls.pump + 1 /\ ev'.type = "message") =>
         LET m == ev'.msg IN
         /\ (/\ m.topic = MQTT_TOPIC_STATUS
             /\ m.payload.form = "record"
             /\ (selected_device = NoDevice
                 \/ m.payload.device_id # selected_device))
            => UNCHANGED <<mqtt_last_status, mqtt_connected, mqtt_status>>
         /\ mqtt_last_status' # mqtt_last_status =>
              /\ m.topic = MQTT_TOPIC_STATUS
              /\ m.payload.form = "record"
              /\ m.payload.device_id = selected_device
              /\ mqtt_last_status' =
                   [device_id |-> m.payload.device_id, time |-> m.payload.time]
      ]_vars

\* C3 witness: a record of another device has just been delivered while
\* last_status held a record of the selected device, which is still there.
C3_Witness ==
    /\ pc = "pubwait"
    /\ ev.type = "message"
    /\ ev.msg.payload.form = "record"
    /\ ev.msg.payload.device_id # selected_device
    /\ mqtt_last_status \in Records
    /\ mqtt_last_status.device_id = selected_device

\* C4 as stated: after a publish that reported a transport failure connected
\* is false and the reconnect was called before the next publish attempt,
\* and one invocation calls reconnect at most once.
C4_ReconnectAtMostOnce ==
    /\ (pc = "reconnwait" /\ timeout = RECONNECT_TIMEOUT) => ~mqtt_connected
    /\ pc \in {"subscribe", "publish"} => calls.reconnect = Cardinality(FailedPublishes)
    /\ calls.reconnect <= 1

\* C4 as amended: after a publish that reported a transport failure connected
\* is false and the reconnect is called before the next publish attempt (and
\* before the return, after the last attempt); this happens once for each
\* failed attempt, so at most RETRY_PUBLISH = 2 times in one invocation.
C4_ReconnectOncePerFailedAttempt ==
    /\ (pc = "reconnwait" /\ timeout = RECONNECT_TIMEOUT) => ~mqtt_connected
    /\ (pc \in {"subscribe", "publish", "reconnwait", "respwait"} \/ ReturnedClean)
         => calls.reconnect = Cardinality(FailedPublishes)
    /\ calls.reconnect <= RETRY_PUBLISH

\* C4 witness: the second publish failed as well, connected is false and
\* the second reconnect has been called.
C4_Witness ==
    /\ pc = "reconnwait"
    /\ timeout = RECONNECT_TIMEOUT
    /\ Cardinality(FailedPublishes) = 2
    /\ calls.reconnect = 2
    /\ ~mqtt_connected
    /\ connAtStart

\* Both publish attempts reported a transport failure.
BothPublishesFailed ==
    /\ Len(sent) >= 2
    /\ \A i \in 1..Len(sent) : sent[i].rc # 0

\* C5: when both publish attempts report a transport failure and nothing
\* raises, the invocation made exactly two publish and two reconnect calls,
\* ends with "Message failed" and ran no pump of the response wait.
C5_BothAttemptsFail ==
    (ReturnedClean /\ BothPublishesFailed) =>
        /\ calls.publish = 2
        /\ calls.reconnect = 2
        /\ mqtt_status = ST_FAILED
        /\ calls.resp_pump = 0

\* C5 witness: an invocation returned after two failed publishes.
C5_Witness ==
    /\ ReturnedClean
    /\ BothPublishesFailed
    /\ mqtt_status = ST_FAILED

\* Attempt 1 reported a transport failure and attempt 2 was confirmed.
FailedThenConfirmed ==
    /\ Len(sent) >= 2
    /\ sent[1].rc # 0
    /\ sent[2].rc = 0
    /\ sent[2].published

\* C6: when publish attempt 1 reports a transport failure and attempt 2 is
\* confirmed delivered, the invocation made exactly one reconnect call and
\* exactly two publish calls and does not end with "Message failed"
\* (whether or not the reconnect was acknowledged within its wait).
C6_RetrySucceeds ==
    (ReturnedClean /\ FailedThenConfirmed) =>
        /\ calls.reconnect = 1
        /\ calls.publish = 2
        /\ mqtt_status # ST_FAILED

\* C6 witness: the scenario, with the reconnect acknowledged within its wait
\* (connected is true again) and the second publish confirmed.
C6_Witness ==
    /\ ReturnedClean
    /\ FailedThenConfirmed
    /\ mqtt_connected
    /\ calls.reconnect = 1

\* Every envelope published so far went to the commands topic and carries
\* the device the command was requested for (the one selected while the
\* invocation runs) and the requested command, one of the six literals.
EnvelopesAsRequested ==
    \A i \in 1..Len(sent) :
        /\ sent[i].topic = MQTT_TOPIC_COMMANDS
        /\ pc # "idle" => sent[i].payload.device_id = selected_device
        /\ sent[i].payload.command = message.command
        /\ sent[i].payload.command \in Commands

\* No publish is made after a confirmed one: whenever the bridge is about to
\* subscribe and publish, no publish of this invocation is confirmed.
NoPublishAfterConfirmed ==
    pc \in {"subscribe", "publish"} => \A i \in 1..Len(sent) : ~sent[i].published

\* C7 as stated: every published envelope carries the requested device_id
\* and command, no publish follows a confirmed one, and an invocation that
\* ends with confirmed delivery handed the broker the command exactly once,
\* also when the first attempt's confirmation timed out.
C7_ExactlyOneEnvelope ==
    /\ EnvelopesAsRequested
    /\ NoPublishAfterConfirmed
    /\ (ReturnedClean /\ Confirmed) => Cardinality(AcceptedPublishes) = 1

\* C7 as amended: every published envelope carries the requested device_id
\* and command, and no publish follows a confirmed one; an invocation that
\* ends with confirmed delivery made one or two publish calls, the last of
\* them the confirmed one, and when the first attempt's confirmation timed
\* out without a transport error the client accepted the command twice.
C7_AtLeastOnceEnvelope ==
    /\ EnvelopesAsRequested
    /\ NoPublishAfterConfirmed
    /\ (ReturnedClean /\ Confirmed) =>
         /\ calls.publish \in {1, 2}
         /\ Len(sent) = calls.publish
         /\ Cardinality(AcceptedPublishes) \in {1, 2}
         /\ (Len(sent) = 2 /\ sent[1].rc = 0) => Cardinality(AcceptedPublishes) = 2

\* C7 witness: delivery was confirmed on the second attempt after the first
\* was accepted by the client and not confirmed in time.
C7_Witness ==
    /\ ReturnedClean
    /\ Confirmed
    /\ Len(sent) = 2
    /\ sent[1].rc = 0
    /\ sent[1].payload = sent[2].payload
    /\ message.command = CMD_INFERENCE_RESTART

\* C8 as stated (read in its favour: the invocation made a publish, nothing
\* raised, and no record of the selected device arrived in any pump after
\* last_status was cleared): no publish reported a transport failure and no
\* response arrived, so the final status line is "device did not respond"
\* and last_status is none.
C8_NoResponseWithoutFailure ==
    (/\ ReturnedClean
     /\ Len(sent) > 0
     /\ FailedPublishes = {}
     /\ delivered \in {"none", "preclear"})
    => (mqtt_status = ST_NO_RESPONSE /\ mqtt_last_status = None)

\* C8 as amended: in an invocation in which nothing raises, no publish
\* reports a transport failure, the publish is confirmed delivered and no
\* record of the selected device arrives in any pump after last_status was
\* cleared, the final status line is "device did not respond" and
\* last_status is none at return.
C8_NoResponseAfterConfirmed ==
    (/\ ReturnedClean
     /\ FailedPublishes = {}
     /\ Confirmed
     /\ delivered \in {"none", "preclear"})
    => (mqtt_status = ST_NO_RESPONSE /\ mqtt_last_status = None)

\* C8 witness: a confirmed publish, five pumps of the response wait without
\* a matching record, and the return.
C8_Witness ==
    /\ ReturnedClean
    /\ FailedPublishes = {}
    /\ Confirmed
    /\ delivered = "none"
    /\ calls.resp_pump = RESPONSE_TIMEOUT
    /\ mqtt_status = ST_NO_RESPONSE

\* C9: when connected is already true at the start of an invocation, the
\* connect wait is not run: up to the first publish there is no pump call
\* and the status line is never "connecting".
C9_NoConnectWaitWhenConnected ==
    connAtStart =>
        /\ calls.publish = 0 => (calls.pump = 0 /\ mqtt_status # ST_CONNECTING)
        /\ (calls.publish = 1 /\ pc = "pubwait" /\ timeout = PUBLISH_TIMEOUT)
             => calls.pump = 0

\* C9 witness: the first publish of an invocation that began connected has
\* just been made, and no pump ran before it.
C9_Witness ==
    /\ connAtStart
    /\ pc = "pubwait"
    /\ calls.subscribe = 1
    /\ calls.publish = 1
    /\ calls.pump = 0
    /\ timeout = PUBLISH_TIMEOUT

\* What is left of an invocation: every step of it lowers this number.
Remaining ==
    CASE pc = "idle" -> 0
      [] pc = "respwait" -> 1 + timeout
      [] pc = "reconnwait" -> 11 + 30 * retry_publish + timeout
      [] pc = "pubwait" -> 20 + 30 * retry_publish + timeout
      [] pc = "publish" -> 29 + 30 * retry_publish
      [] pc = "subscribe" -> 30 * retry_publish
      [] pc = "clear" -> 100
      [] pc = "connwait" -> 101 + timeout

\* C10: every invocation terminates whatever the broker and the device do:
\* each step of it brings the return nearer, each pump call that returns
\* decrements the countdown of its loop whether or not it processed
\* anything, and one invocation makes at most 5 + 2 x (5 + 5) + 5 = 35
\* pump calls, 2 publish calls and 2 reconnect calls.
C10_BoundedInvocation ==
    /\ [](/\ calls.pump <= CONNECT_TIMEOUT
                           + RETRY_PUBLISH * (PUBLISH_TIMEOUT + RECONNECT_TIMEOUT)
                           + RESPONSE_TIMEOUT
          /\ calls.publish <= 2
          /\ calls.reconnect <= 2
          /\ timeout \in 0..5)
    /\ [][/\ pc # "idle" => Remaining' < Remaining
          /\ (calls'.pump = calls.pump + 1 /\ pc' # "idle") => timeout' = timeout - 1
       ]_vars

\* C10 witness: the longest invocation there is, 20 pump calls: the whole
\* connect wait, a first publish never confirmed, a second one confirmed by
\* the last pump of its wait, and the whole response wait.
C10_Witness ==
    /\ ReturnedClean
    /\ calls.pump = 20
    /\ calls.publish = 2
    /\ calls.resp_pump = RESPONSE_TIMEOUT
    /\ mqtt_status = ST_NO_RESPONSE

\* ------------------------------------------------------------------- C11
\* Some loop() call of an invocation processes the event left in ev'.
PumpStep == pc # "idle" /\ calls'.pump = calls.pump + 1

\* C11: mqtt_connected turns from false to true only in a loop() call that
\* processes a connect acknowledgment with rc 0, which is _on_connect; it
\* turns from true to false only in the step that follows a publish whose
\* rc was not 0, the one that calls reconnect. A loop() call that hands a
\* message to _on_message, or processes anything but an acknowledgment,
\* leaves it alone, in the response wait as in every other wait, and so
\* does every step that ends in the except clause, but for the assignment
\* that precedes a raising reconnect.
C11_ConnectedChanges ==
    [][/\ (~mqtt_connected /\ mqtt_connected') =>
            /\ PumpStep
            /\ ev'.type = "connack"
            /\ ev'.rc = 0
       /\ (mqtt_connected /\ ~mqtt_connected') =>
            /\ pc = "pubwait"
            /\ msg_info.rc # 0
            /\ ~msg_info.published
            /\ calls'.reconnect = calls.reconnect + 1
            /\ calls'.pump = calls.pump
       /\ (PumpStep /\ ev'.type # "connack") =>
            mqtt_connected' = mqtt_connected
       /\ (pc # "idle" /\ raisedAt' \notin {"none", "reconnect"}) =>
            mqtt_connected' = mqtt_connected
      ]_vars

\* A connection that the failed publish marked lost is acknowledged again
\* in the reconnect wait.
C11_Witness ==
    /\ pc = "reconnwait"
    /\ connAtStart
    /\ calls.reconnect = 1
    /\ ev.type = "connack"
    /\ ev.rc = 0
    /\ mqtt_connected

\* ------------------------------------------------------------------- C12
\* The latest loop() call handed _on_message a status payload that is no
\* JSON.
MalformedDelivered ==
    /\ ev.type = "message"
    /\ ev.msg.topic = MQTT_TOPIC_STATUS
    /\ ev.msg.payload.form = "malformed"

\* C12: a status payload that cannot be decoded, received in a loop() call
\* of an invocation, is dropped: the call does not end the invocation, so
\* the round-trip goes on and no "cannot reach broker" line is written for
\* it.
C12_MalformedDropped ==
    MalformedDelivered =>
        /\ pc # "idle"
        /\ raisedAt = "none"
        /\ mqtt_status \notin CannotReachLines

\* ------------------------------------------------------------------- C13
\* The invocation returned after two publishes that both reported rc 0 and
\* the second of which was not confirmed when its wait ended (the first was
\* not confirmed in its wait either, or there had been no second).
BothPublishesTimedOut ==
    /\ ReturnedClean
    /\ Len(sent) = RETRY_PUBLISH
    /\ \A i \in 1..Len(sent) : sent[i].rc = 0
    /\ ~msg_info.published

\* C13: when both publishes report rc 0 and neither is confirmed within the
\* five loop() calls of its wait, the invocation has made exactly two
\* subscribe and two publish calls and no reconnect call, ends with the
\* "Message failed" line and has made no loop() call of the response wait.
\* It does not touch mqtt_connected: a session that was connected still is,
\* and while no publish has reported an error the flag changes in the retry
\* loop only where a loop() call runs _on_connect with rc 0.
C13_PublishTimeout ==
    /\ [](BothPublishesTimedOut =>
            /\ calls.subscribe = 2
            /\ calls.publish = 2
            /\ calls.reconnect = 0
            /\ calls.resp_pump = 0
            /\ mqtt_status = ST_FAILED
            /\ connAtStart => mqtt_connected)
    /\ [][(/\ pc \in {"subscribe", "publish", "pubwait"}
           /\ FailedPublishes' = {}
           /\ mqtt_connected' # mqtt_connected) =>
              /\ PumpStep
              /\ ev'.type = "connack"
              /\ ev'.rc = 0]_vars

\* Both waits ran their five loop() calls in a connected session.
C13_Witness ==
    /\ BothPublishesTimedOut
    /\ connAtStart
    /\ mqtt_connected
    /\ calls.pump = 2 * PUBLISH_TIMEOUT
    /\ ~sent[1].published
    /\ mqtt_status = ST_FAILED

\* ------------------------------------------------------------------- C14
\* C14: when a publish was confirmed and no record of the selected device
\* was handed to the listener from the clearing of mqtt_last_status to the
\* end of the response wait, the invocation spends the whole response
\* budget and ends with the "device did not respond" line. From the
\* confirmation to the return it makes no reconnect call and no further
\* publish call and does not assign mqtt_connected (the flag changes there
\* only where a loop() call runs _on_connect with rc 0).
C14_ResponseTimeout ==
    /\ []((/\ ReturnedClean
           /\ Confirmed
           /\ delivered \in {"none", "preclear"}) =>
              /\ mqtt_status = ST_NO_RESPONSE
              /\ mqtt_last_status = None
              /\ calls.resp_pump = RESPONSE_TIMEOUT)
    /\ [][(pc # "idle" /\ Confirmed) =>
              /\ calls'.reconnect = calls.reconnect
              /\ calls'.publish = calls.publish
              /\ mqtt_connected' # mqtt_connected =>
                    /\ PumpStep
                    /\ ev'.type = "connack"
                    /\ ev'.rc = 0]_vars

\* The first publish is confirmed, the device stays silent, and the session
\* is connected before and after.
C14_Witness ==
    /\ ReturnedClean
    /\ Confirmed
    /\ delivered = "none"
    /\ calls.publish = 1
    /\ calls.reconnect = 0
    /\ calls.resp_pump = RESPONSE_TIMEOUT
    /\ connAtStart
    /\ mqtt_connected
    /\ mqtt_status = ST_NO_RESPONSE

\* ------------------------------------------------------------------- C15
\* C15: when the publish is confirmed and a record of the selected device
\* is handed to the listener after mqtt_last_status was cleared and before
\* the response budget is used up, the record is in mqtt_last_status right
\* after the loop() call that delivered it, the response wait makes no
\* further loop() call once mqtt_last_status holds a record and returns with
\* it, and at the return mqtt_last_status is a record of the requested
\* device and the status line is still "waiting for device response".
C15_ResponseStored ==
    /\ []((pc # "idle" /\ Matches(ev)) =>
              mqtt_last_status = JsonLoads(ev.msg.payload))
    /\ []((/\ Returned
           /\ Confirmed
           /\ delivered \in {"postclear", "inwait"}) =>
              /\ raisedAt = "none"
              /\ mqtt_last_status \in Records
              /\ mqtt_last_status.device_id = message.device_id
              /\ mqtt_status = ST_WAITING
              /\ delivered = "postclear" => calls.resp_pump = 0)
    /\ [][(pc = "respwait" /\ mqtt_last_status # None) =>
              /\ pc' = "idle"
              /\ ret' = "normal"
              /\ calls' = calls
              /\ mqtt_last_status' = mqtt_last_status
              /\ mqtt_status' = ST_WAITING]_vars

\* The record arrives in the third loop() call of the response wait, which
\* then returns with two calls of its budget unused.
C15_Witness ==
    /\ ReturnedClean
    /\ Confirmed
    /\ delivered = "inwait"
    /\ calls.resp_pump = 3
    /\ timeout = 2
    /\ mqtt_last_status \in Records
    /\ mqtt_status = ST_WAITING

\* ------------------------------------------------------------------- C16
\* No publish of this invocation has been written to the connection yet, so
\* the device cannot have received its command, let alone answered it.
NothingSentYet == \A i \in 1..Len(sent) : ~sent[i].published

\* C16: a record carries no mark of the command it answers. After a
\* round-trip for the same device ended with "device did not respond", a
\* record of that device that is delivered in the next round-trip before
\* its own command has left (so it answers the earlier command at best) is
\* stored like any other, and when the publish is confirmed afterwards the
\* response wait finds it: the invocation returns with the "waiting for
\* device response" line and the record, without a single loop() call of
\* the response wait and without "device did not respond".
C16_LateReplyAccepted ==
    /\ (/\ prevNoResponse
        /\ pc = "pubwait"
        /\ Matches(ev)
        /\ NothingSentYet) =>
            mqtt_last_status = JsonLoads(ev.msg.payload)
    /\ (/\ prevNoResponse
        /\ Returned
        /\ Confirmed
        /\ delivered = "postclear") =>
            /\ mqtt_last_status \in Records
            /\ mqtt_last_status.device_id = message.device_id
            /\ calls.resp_pump = 0
            /\ mqtt_status # ST_NO_RESPONSE
            /\ mqtt_status = ST_WAITING

\* The state the claim says is reachable: the earlier command went
\* unanswered, and this one returns satisfied by a record that was delivered
\* in its only publish wait, before the publish was confirmed.
C16_Witness ==
    /\ prevNoResponse
    /\ ReturnedClean
    /\ Len(sent) = 1
    /\ Confirmed
    /\ delivered = "postclear"
    /\ calls.resp_pump = 0
    /\ mqtt_last_status \in Records
    /\ mqtt_last_status.device_id = message.device_id
    /\ mqtt_status = ST_WAITING

\* ------------------------------------------------------------------- C17
\* C17: every publish call comes straight after the subscribe call of the
\* same attempt, with the subscription of the status topic in force: as
\* many subscribe calls as publish calls have been made once a publish is
\* out, one more while it is due. A reconnect call is made only after a
\* publish, never between a subscribe and its publish; it ends the
\* subscription, which the next attempt renews before it publishes.
C17_SubscribeBeforePublish ==
    /\ [](pc = "publish" =>
            /\ subscribed
            /\ calls.subscribe = calls.publish + 1)
    /\ [](pc \in {"pubwait", "reconnwait", "respwait"} =>
            /\ calls.subscribe = calls.publish
            /\ calls.reconnect < calls.publish + 1)
    /\ [][calls'.publish = calls.publish + 1 =>
            /\ pc = "publish"
            /\ subscribed
            /\ calls.subscribe = calls'.publish
            /\ calls.reconnect < calls'.publish]_vars
    /\ [][calls'.reconnect = calls.reconnect + 1 =>
            /\ pc = "pubwait"
            /\ calls.subscribe = calls.publish
            /\ ~subscribed']_vars

\* The second publish, made after a reconnect and a second subscribe.
C17_Witness ==
    /\ pc = "pubwait"
    /\ calls.reconnect = 1
    /\ calls.subscribe = 2
    /\ calls.publish = 2
    /\ subscribed

\* ------------------------------------------------------------------- C18
\* C18: in every state, those that follow a change of the selection in the
\* sidebar included, mqtt_last_status is none or a record of the device
\* that is selected now.
C18_LastStatusOfSelected ==
    mqtt_last_status = None \/ mqtt_last_status.device_id = selected_device

\* ------------------------------------------------------------------- C19
\* The lines that report a failure.
FailureLines == {ST_FAILED, ST_NO_RESPONSE} \cup CannotReachLines

C20_StatusLineConsistent ==
    /\ (Returned /\ mqtt_status = ST_NO_RESPONSE) =>
            /\ Confirmed
            /\ mqtt_last_status = None
            /\ calls.resp_pump = RESPONSE_TIMEOUT
            /\ raisedAt = "none"
    /\ (Returned /\ mqtt_status = ST_FAILED) =>
            /\ Len(sent) > 0
            /\ ~msg_info.published
            /\ calls.resp_pump = 0
            /\ raisedAt = "none"
    /\ (ReturnedClean /\ Confirmed /\ mqtt_last_status = None) =>
            mqtt_status = ST_NO_RESPONSE

\* "Message failed" after a failed first publish and a second one that was
\* accepted and never confirmed.
C20_Witness ==
    /\ Returned
    /\ mqtt_status = ST_FAILED
    /\ Len(sent) = 2
    /\ sent[1].rc # 0
    /\ sent[2].rc = 0
    /\ ~msg_info.published
    /\ calls.resp_pump = 0

=============================================================================
